---- MODULE Spec2Model ----
(***************************************************************************)
(* A model of the 16-bit SPN cipher of SPNWithLinAndDiffAttacks/src/main.rs *)
(* with its key schedule, its linear and differential key-recovery attacks  *)
(* and the demonstration run of main().                                     *)
(*                                                                          *)
(* Every function of the program is pure; it is modelled by an operator     *)
(* that computes what the Rust code computes, with u16/u8 widths kept and   *)
(* f32 arithmetic rounded as IEEE-754 single precision rounds.  A call is   *)
(* a step of the state machine: op names the function called, arg holds     *)
(* its arguments and res what the call produced, either                     *)
(*   [kind |-> "ok", val |-> v]          the function returned v            *)
(*   [kind |-> "panic", msg |-> m]       the function panicked              *)
(* The variable main holds the locals of main() during the demonstration.   *)
(***************************************************************************)
EXTENDS Integers, Sequences, FiniteSets, TLC

VARIABLES op, arg, res, main

vars == <<op, arg, res, main>>

(***************************************************************************)
(* Results of a call                                                        *)
(***************************************************************************)
Ok(v) == [kind |-> "ok", val |-> v]

Panic(m) == [kind |-> "panic", msg |-> m]

NoValue == [kind |-> "none"]

(***************************************************************************)
(* Machine integers.  The bitwise operators split their operands in halves  *)
(* (width is a power of two that covers both operands), and a loop that     *)
(* ORs one term per index into an accumulator is the OR of the terms of     *)
(* the halves of its index range.                                           *)
(***************************************************************************)
Pow2(n) == 2 ^ n

U16 == 0 .. 65535

Nibbles == 0 .. 15

RECURSIVE XorWidth(_, _, _)
XorWidth(a, b, width) ==
  IF a = 0 THEN b
  ELSE IF b = 0 THEN a
  ELSE IF width = 1 THEN (a + b) % 2
  ELSE LET half == width \div 2
           m == Pow2(half)
       IN XorWidth(a % m, b % m, half) + m * XorWidth(a \div m, b \div m, half)

RECURSIVE AndWidth(_, _, _)
AndWidth(a, b, width) ==
  IF a = 0 \/ b = 0 THEN 0
  ELSE IF width = 1 THEN a * b
  ELSE LET half == width \div 2
           m == Pow2(half)
       IN AndWidth(a % m, b % m, half) + m * AndWidth(a \div m, b \div m, half)

RECURSIVE OrWidth(_, _, _)
OrWidth(a, b, width) ==
  IF a = 0 THEN b
  ELSE IF b = 0 THEN a
  ELSE IF width = 1 THEN 1
  ELSE LET half == width \div 2
           m == Pow2(half)
       IN OrWidth(a % m, b % m, half) + m * OrWidth(a \div m, b \div m, half)

\* a ^ b, a & b, a | b on values of at most 16 bits
BitXor(a, b) == XorWidth(a, b, 16)

BitAnd(a, b) == AndWidth(a, b, 16)

BitOr(a, b) == OrWidth(a, b, 16)

\* a >> n
Shr(a, n) == a \div Pow2(n)

\* a << n on u16 (bits shifted past bit 15 are lost)
Shl16(a, n) == (a * Pow2(n)) % 65536

RECURSIVE OnesWidth(_, _)
OnesWidth(a, width) ==
  IF a = 0 THEN 0
  ELSE IF width = 1 THEN 1
  ELSE LET half == width \div 2
           m == Pow2(half)
       IN OnesWidth(a % m, half) + OnesWidth(a \div m, half)

\* u16::count_ones
CountOnes(a) == OnesWidth(a, 16)

RECURSIVE OrOver(_, _, _)
\* output after  for i in lo..hi { output |= Term(i) }  from output = 0
OrOver(Term(_), lo, hi) ==
  IF hi <= lo THEN 0
  ELSE IF hi = lo + 1 THEN Term(lo)
  ELSE LET mid == (lo + hi) \div 2
       IN BitOr(OrOver(Term, lo, mid), OrOver(Term, mid, hi))

\* F applied to the value of x: x is computed before F is entered
Call(F(_), x) == CHOOSE r \in {F(v) : v \in {x}} : TRUE

(***************************************************************************)
(* The S-box tables (index 0 of the Rust array is index 1 of the tuple)     *)
(***************************************************************************)
SBOX == <<12, 5, 6, 11, 9, 0, 10, 13, 3, 14, 15, 8, 4, 7, 1, 2>>

SBOX_INV == <<5, 14, 15, 8, 12, 1, 2, 13, 11, 4, 6, 3, 0, 7, 9, 10>>

\* the loop  for i in 0..4  shared by sbox_layer and sbox_inv_layer
Substitute(table, state) ==
  OrOver(LAMBDA i :
           LET nibble == BitAnd(Shr(state, i * 4) % 256, 15)
               substituted == table[nibble + 1]
           IN Shl16(substituted, i * 4),
         0, 4)

sbox_layer(state) == Substitute(SBOX, state)

\* a plausible slip: the inverse layer looking up the forward table
sbox_inv_layer_forward_table(state) == Substitute(SBOX, state)

sbox_inv_layer(state) == Substitute(SBOX_INV, state)

\* a plausible slip: the transposition written as a rotation of the nibbles
PboxTargetRotated(i) == (i + 4) % 16

\* where pbox sends bit i
PboxTarget(i) == (i % 4) * 4 + (i \div 4)

\* the loop  for i in 0..16  of pbox
pbox(state) ==
  OrOver(LAMBDA i :
           LET bit == BitAnd(Shr(state, i), 1)
               j == PboxTarget(i)
           IN Shl16(bit, j),
         0, 16)

(***************************************************************************)
(* encrypt and decrypt.  round_keys is a slice: indexing it past its        *)
(* length panics.  Rust index k is tuple index k + 1.                       *)
(***************************************************************************)
IndexPanic == Panic("index out of bounds")

RECURSIVE EncryptRounds(_, _, _)
\* the loop  for i in 1..4  of encrypt, then the final round
EncryptRounds(state, round_keys, i) ==
  IF i = 4
    THEN IF Len(round_keys) <= 4 THEN IndexPanic
         ELSE Ok(BitXor(Call(sbox_layer, state), round_keys[5]))
    ELSE IF Len(round_keys) <= i THEN IndexPanic
         ELSE Call(LAMBDA next : EncryptRounds(next, round_keys, i + 1),
                   BitXor(Call(pbox, Call(sbox_layer, state)), round_keys[i + 1]))

encrypt(plaintext, round_keys) ==
  IF Len(round_keys) <= 0 THEN IndexPanic
  ELSE Call(LAMBDA state : EncryptRounds(state, round_keys, 1),
            BitXor(plaintext, round_keys[1]))

RECURSIVE DecryptRounds(_, _, _)
\* the loop  for i in (1..4).rev()  of decrypt, then the whitening
DecryptRounds(state, round_keys, i) ==
  IF i = 0
    THEN Ok(BitXor(state, round_keys[1]))
    ELSE Call(LAMBDA next : DecryptRounds(next, round_keys, i - 1),
              Call(sbox_inv_layer,
                   Call(pbox, BitXor(state, round_keys[i + 1]))))

\* the first index decrypt uses is 4, so a slice shorter than 5 panics there
decrypt(ciphertext, round_keys) ==
  IF Len(round_keys) <= 4 THEN IndexPanic
  ELSE Call(LAMBDA state : DecryptRounds(state, round_keys, 3),
            Call(sbox_inv_layer, BitXor(ciphertext, round_keys[5])))

(***************************************************************************)
(* Idle values                                                              *)
(***************************************************************************)
NoArg == [none |-> TRUE]

MainIdle == [pc |-> "idle"]

(***************************************************************************)
(* The permutation: pbox applied to a block, and to its own result          *)
(***************************************************************************)
InitIdle == op = "idle" /\ arg = NoArg /\ res = NoValue /\ main = MainIdle

CallPbox ==
  /\ op = "idle"
  /\ \E state \in U16 :
       /\ op' = "pbox"
       /\ arg' = [state |-> state]
       /\ res' = Ok(pbox(state))
  /\ UNCHANGED main

\* pbox applied to what pbox returned (decrypt undoes encrypt's pbox this way)
CallPboxAgain ==
  /\ op = "pbox"
  /\ op' = "pbox_pbox"
  /\ arg' = arg
  /\ res' = Ok(pbox(res.val))
  /\ UNCHANGED main

NextPbox == CallPbox \/ CallPboxAgain

SpecPbox == InitIdle /\ [][NextPbox]_vars

\* bit i of x
Bit(x, i) == (x \div Pow2(i)) % 2

\* C10: pbox moves the bit at position i of its input to position
\* (i mod 4)*4 + (i div 4) of its output, and pbox(pbox(x)) = x for every
\* 16-bit x.
C10_PermuteTransposesAndIsInvolution ==
  /\ op = "pbox" =>
       \A i \in 0 .. 15 :
         Bit(res.val, (i % 4) * 4 + (i \div 4)) = Bit(arg.state, i)
  /\ op = "pbox_pbox" => res.val = arg.state

\* pbox has been applied twice to a block it does not fix
C10_Witness ==
  /\ op = "pbox_pbox"
  /\ arg.state = 43981
  /\ res.val = 43981
  /\ pbox(arg.state) # arg.state

(***************************************************************************)
(* The cipher: encrypt, decrypt, and decrypt applied to what encrypt        *)
(* returned under the same round keys (main, lines 269-275)                 *)
(***************************************************************************)
MaxKeyLen == 6

\* 0x0000, 0x1234, 0xFFFF
KeyWords == {0, 4660, 65535}

Schedules == UNION {[1 .. n -> KeyWords] : n \in 0 .. MaxKeyLen}

\* 0x0000, 0x0001, 0x8000, 0x0F0F, 0xABCD, 0xFFFF
Blocks == {0, 1, 32768, 3855, 43981, 65535}

CallEncrypt ==
  /\ op = "idle"
  /\ \E plaintext \in Blocks, round_keys \in Schedules :
       /\ op' = "encrypt"
       /\ arg' = [plaintext |-> plaintext, round_keys |-> round_keys]
       /\ res' = encrypt(plaintext, round_keys)
  /\ UNCHANGED main

CallDecrypt ==
  /\ op = "idle"
  /\ \E ciphertext \in Blocks, round_keys \in Schedules :
       /\ op' = "decrypt"
       /\ arg' = [ciphertext |-> ciphertext, round_keys |-> round_keys]
       /\ res' = decrypt(ciphertext, round_keys)
  /\ UNCHANGED main

\* let decrypted = decrypt(ciphertext, &round_keys)  after a returned encrypt
CallDecryptOfEncrypt ==
  /\ op = "encrypt"
  /\ res.kind = "ok"
  /\ op' = "decrypt_of_encrypt"
  /\ arg' = [plaintext |-> arg.plaintext, round_keys |-> arg.round_keys,
             ciphertext |-> res.val]
  /\ res' = decrypt(res.val, arg.round_keys)
  /\ UNCHANGED main

NextCipher == CallEncrypt \/ CallDecrypt \/ CallDecryptOfEncrypt

SpecCipher == InitIdle /\ [][NextCipher]_vars

\* C1: for every 16-bit plaintext p and every schedule k of exactly five
\* round keys, decrypt(encrypt(p, k), k) = p.
C1_DecryptInvertsEncrypt ==
  (op = "decrypt_of_encrypt" /\ Len(arg.round_keys) = 5) =>
    res = Ok(arg.plaintext)

\* the round trip of main: 0xABCD under a schedule of five keys that are not
\* all equal, through a ciphertext that differs from the plaintext
C1_Witness ==
  /\ op = "decrypt_of_encrypt"
  /\ arg.plaintext = 43981
  /\ arg.round_keys = <<4660, 0, 65535, 4660, 65535>>
  /\ arg.ciphertext # arg.plaintext
  /\ res = Ok(43981)

\* C5: encrypt and decrypt called with a round-key sequence whose length is
\* not exactly 5 fail (InvalidKeySchedule) and produce no output block.  The
\* Rust code has no error values: a panic is counted here as the failure.
C5_WrongLengthFails ==
  (op \in {"encrypt", "decrypt"} /\ Len(arg.round_keys) # 5) =>
    res.kind # "ok"

(***************************************************************************)
(* The key schedule.  A u128 is written as its 32 hexadecimal digits, most  *)
(* significant first, so that no intermediate value exceeds 32 bits; every  *)
(* shift reads the bits of those digits.                                    *)
(***************************************************************************)
MaxRounds == 7

\* bit j (0 = least significant) of the u128 master_key; 0 above bit 127
U128Bit(master_key, j) ==
  IF j > 127 THEN 0 ELSE Bit(master_key[32 - (j \div 4)], j % 4)

\* (master_key >> n) as u16: bits n .. n + 15 of master_key
ShrAsU16(master_key, n) ==
  OrOver(LAMBDA b : U128Bit(master_key, n + b) * Pow2(b), 0, 16)

\* a plausible slip: the chunks taken from the least significant end
ChunkShiftFromLow(i) == 16 * i

\* 80 - 16 * (i + 1), the shift that selects chunk i
ChunkShift(i) == 80 - 16 * (i + 1)

RECURSIVE ExpandFrom(_, _, _, _)
\* (0..rounds).map(|i| ..).collect() from index i on.  The shift amount is a
\* usize: 80 - 16 * (i + 1) is below zero from i = 5 on.  A build with
\* overflow checks (the default of a debug build) panics there; a build
\* without them (the default of a release build) wraps the subtraction
\* modulo the width of usize, and >> on a u128 then keeps the low 7 bits of
\* the amount, which is the amount modulo 128 for either width of usize.
ExpandFrom(master_key, rounds, overflow_checks, i) ==
  IF i = rounds THEN Ok(<<>>)
  ELSE IF ChunkShift(i) < 0 /\ overflow_checks
    THEN Panic("attempt to subtract with overflow")
    ELSE LET rest == ExpandFrom(master_key, rounds, overflow_checks, i + 1)
             word == ShrAsU16(master_key, ChunkShift(i) % 128)
         IN IF rest.kind = "ok" THEN Ok(<<word>> \o rest.val) ELSE rest

expand_key(master_key, rounds, overflow_checks) ==
  ExpandFrom(master_key, rounds, overflow_checks, 0)

\* the u128 whose low 80 bits are the 20 digits given and whose top 48 bits
\* are the 12 digits given
Key128(top, low) == top \o low

NoTop == <<0, 0, 0, 0, 0, 0, 0, 0, 0, 0, 0, 0>>

\* 0x1234_5678_90AB_CDEF_1234, the master key of main
DemoKey ==
  Key128(NoTop, <<1, 2, 3, 4, 5, 6, 7, 8, 9, 0, 10, 11, 12, 13, 14, 15, 1, 2, 3, 4>>)

MasterKeys ==
  { DemoKey,
    Key128(NoTop, <<0, 0, 0, 0, 0, 0, 0, 0, 0, 0, 0, 0, 0, 0, 0, 0, 0, 0, 0, 0>>),
    Key128(NoTop, <<15, 15, 15, 15, 15, 15, 15, 15, 15, 15,
                    15, 15, 15, 15, 15, 15, 15, 15, 15, 15>>),
    Key128(NoTop, <<8, 0, 0, 0, 0, 0, 0, 1, 0, 0, 0, 2, 0, 0, 0, 4, 0, 0, 0, 8>>),
    Key128(NoTop, <<0, 1, 2, 3, 4, 5, 6, 7, 8, 9, 10, 11, 12, 13, 14, 15, 0, 15, 0, 15>>),
    Key128(NoTop, <<10, 5, 10, 5, 5, 10, 5, 10, 3, 12, 3, 12, 12, 3, 12, 3, 7, 14, 1, 8>>),
    \* u128 values with bits above bit 79
    Key128(<<11, 14, 14, 15, 0, 0, 0, 0, 0, 0, 0, 0>>,
           <<1, 2, 3, 4, 5, 6, 7, 8, 9, 0, 10, 11, 12, 13, 14, 15, 1, 2, 3, 4>>),
    Key128(<<12, 10, 15, 14, 13, 0, 0, 13, 15, 0, 0, 13>>,
           <<15, 14, 13, 12, 11, 10, 9, 8, 7, 6, 5, 4, 3, 2, 1, 0, 1, 2, 3, 4>>) }

CallExpandKey ==
  /\ op = "idle"
  /\ \E master_key \in MasterKeys, rounds \in 0 .. MaxRounds,
        overflow_checks \in BOOLEAN :
       /\ op' = "expand_key"
       /\ arg' = [master_key |-> master_key, rounds |-> rounds,
                  overflow_checks |-> overflow_checks]
       /\ res' = expand_key(master_key, rounds, overflow_checks)
  /\ UNCHANGED main

NextKey == CallExpandKey

SpecKey == InitIdle /\ [][NextKey]_vars

\* the 16-bit word written by hexadecimal digits 4i+1 .. 4i+4 of the 80-bit key
HexChunk(master_key, i) ==
  LET d == SubSeq(master_key, 13, 32)
  IN d[4 * i + 1] * 4096 + d[4 * i + 2] * 256 + d[4 * i + 3] * 16 + d[4 * i + 4]

\* C7: for every master key and every roundCount in 0..5, expandKey returns
\* exactly roundCount entries, entry i being bits [80-16(i+1), 80-16i) of the
\* key (its i-th group of four hexadecimal digits from the most significant
\* end); key 0x1234567890ABCDEF1234 with roundCount 5 gives
\* [0x1234, 0x5678, 0x90AB, 0xCDEF, 0x1234].
C7_ExpandKeySlicesMostSignificantFirst ==
  (op = "expand_key" /\ arg.rounds <= 5) =>
    /\ res.kind = "ok"
    /\ Len(res.val) = arg.rounds
    /\ \A i \in 0 .. arg.rounds - 1 :
         res.val[i + 1] = HexChunk(arg.master_key, i)
    /\ (arg.master_key = DemoKey /\ arg.rounds = 5) =>
         res.val = <<4660, 22136, 37035, 52719, 4660>>

\* the schedule of main has been derived
C7_Witness ==
  /\ op = "expand_key"
  /\ arg.master_key = DemoKey
  /\ arg.rounds = 5
  /\ res = Ok(<<4660, 22136, 37035, 52719, 4660>>)

\* C6: expandKey called with roundCount * 16 > 80 fails (InvalidConfiguration);
\* it never returns a schedule.  A panic is counted here as the failure.
C6_TooManyRoundsFails ==
  (op = "expand_key" /\ arg.rounds * 16 > 80) => res.kind # "ok"

(***************************************************************************)
(* f32.  The values the attack computes are NaN or lie in [-1, 1]; a        *)
(* finite one is kept as the integer num with value num * 2^-30, which is   *)
(* exact for every quotient count/total with total <= 128.  Each operation  *)
(* rounds to 24 significant bits, ties to even, as IEEE-754 single          *)
(* precision does.                                                          *)
(***************************************************************************)
F32One == Pow2(30)

NaN == [nan |-> TRUE, num |-> 0]

Finite(num) == [nan |-> FALSE, num |-> num]

RECURSIVE Normalise(_, _, _)
\* the least s with c * 2^s >= t, as <<c * 2^s, s>>
Normalise(c, t, s) == IF c >= t THEN <<c, s>> ELSE Normalise(2 * c, t, s + 1)

\* the 24 quotient bits of n / t for t <= n < 2t, and the remainder left:
\* long division, 11 bits and then 12 bits at a time
LongDivide(n, t) ==
  LET q1 == (n * 2048) \div t
      r1 == (n * 2048) % t
      q2 == (r1 * 4096) \div t
      r2 == (r1 * 4096) % t
  IN <<q1 * 4096 + q2, r2>>

\* count as f32 / total for integers 0 <= c <= t: 0.0 / 0.0 is NaN
F32Div(c, t) ==
  IF t = 0 THEN NaN
  ELSE IF c = 0 THEN Finite(0)
  ELSE LET norm == Normalise(c, t, 0)
           d == LongDivide(norm[1], t)
           up == 2 * d[2] > t \/ (2 * d[2] = t /\ d[1] % 2 = 1)
           mant == IF up THEN d[1] + 1 ELSE d[1]
       IN Finite(mant * Pow2(7 - norm[2]))

RECURSIVE ExcessBits(_, _)
\* how many low bits a magnitude has beyond 24 significant ones
ExcessBits(m, k) == IF m < Pow2(24 + k) THEN k ELSE ExcessBits(m, k + 1)

\* a magnitude in units of 2^-30 rounded to 24 significant bits
RoundMagnitude(m) ==
  LET k == ExcessBits(m, 0)
      unit == Pow2(k)
      low == m % unit
      kept == m \div unit
      up == 2 * low > unit \/ (2 * low = unit /\ kept % 2 = 1)
  IN (IF up THEN kept + 1 ELSE kept) * unit

\* x - y
F32Sub(x, y) ==
  IF x.nan \/ y.nan THEN NaN
  ELSE LET v == x.num - y.num
       IN Finite(IF v < 0 THEN 0 - RoundMagnitude(0 - v) ELSE RoundMagnitude(v))

\* x.abs()
F32Abs(x) == IF x.nan THEN NaN ELSE Finite(IF x.num < 0 THEN 0 - x.num ELSE x.num)

\* x > y: false when either is NaN
F32Gt(x, y) == ~x.nan /\ ~y.nan /\ x.num > y.num

(***************************************************************************)
(* linear_attack                                                            *)
(***************************************************************************)
NoCounts == [candidate \in Nibbles |-> 0]

\* the target nibble of a ciphertext word
TargetNibble(cipher, nibble_idx) == BitAnd(Shr(cipher, 4 * nibble_idx), 15)

\* the body of  for (plain, cipher) in pairs  of linear_attack
LinearCountPair(counts, pair, alpha, beta_nibble, nibble_idx) ==
  LET alpha_dot == CountOnes(BitAnd(alpha, pair[1])) % 2
  IN [candidate \in Nibbles |->
        LET u == BitXor(TargetNibble(pair[2], nibble_idx), candidate)
            v == SBOX_INV[u + 1]
            beta_dot == CountOnes(BitAnd(beta_nibble, v)) % 2
        IN IF (alpha_dot + beta_dot) % 2 = 0
             THEN counts[candidate] + 1
             ELSE counts[candidate]]

RECURSIVE LinearCounts(_, _, _, _, _)
\* counts after the first n pairs
LinearCounts(pairs, n, alpha, beta_nibble, nibble_idx) ==
  IF n = 0 THEN NoCounts
  ELSE Call(LAMBDA counts :
              LinearCountPair(counts, pairs[n], alpha, beta_nibble, nibble_idx),
            LinearCounts(pairs, n - 1, alpha, beta_nibble, nibble_idx))

\* (count as f32 / total - 0.5).abs()
Bias(count, total) == F32Abs(F32Sub(F32Div(count, total), Finite(F32One \div 2)))

\* if bias > best_bias
BiasBeats(bias, best_bias) == F32Gt(bias, best_bias)

RECURSIVE LinearBest(_, _, _, _, _)
\* the loop  for (candidate, &count) in counts.iter().enumerate()
LinearBest(counts, total, candidate, best_bias, best_candidate) ==
  IF candidate = 16 THEN best_candidate
  ELSE Call(LAMBDA bias :
              IF BiasBeats(bias, best_bias)
                THEN LinearBest(counts, total, candidate + 1, bias, candidate)
                ELSE LinearBest(counts, total, candidate + 1, best_bias,
                                best_candidate),
            Bias(counts[candidate], total))

linear_attack(pairs, alpha, beta, nibble_idx) ==
  LET beta_nibble == BitAnd(Shr(beta, 4 * nibble_idx), 15) % 256
  IN Call(LAMBDA counts :
            Ok(LinearBest(counts, Len(pairs), 0, Finite(0 - F32One), 0)),
          LinearCounts(pairs, Len(pairs), alpha, beta_nibble, nibble_idx))

(***************************************************************************)
(* differential_attack                                                      *)
(***************************************************************************)
\* the body of  for (p1, p2, c1, c2) in pairs  of differential_attack
DifferentialCountPair(counts, quad, delta_p, delta_u_nibble, nibble_idx) ==
  IF BitXor(quad[1], quad[2]) # delta_p THEN counts
  ELSE LET c1_nib == TargetNibble(quad[3], nibble_idx)
           c2_nib == TargetNibble(quad[4], nibble_idx)
       IN [candidate \in Nibbles |->
             LET v1 == SBOX_INV[BitXor(c1_nib, candidate) + 1]
                 v2 == SBOX_INV[BitXor(c2_nib, candidate) + 1]
             IN IF BitXor(v1, v2) = delta_u_nibble % 256
                  THEN counts[candidate] + 1
                  ELSE counts[candidate]]

RECURSIVE DifferentialCounts(_, _, _, _, _)
\* counts after the first n quadruples
DifferentialCounts(pairs, n, delta_p, delta_u_nibble, nibble_idx) ==
  IF n = 0 THEN NoCounts
  ELSE Call(LAMBDA counts :
              DifferentialCountPair(counts, pairs[n], delta_p, delta_u_nibble,
                                    nibble_idx),
            DifferentialCounts(pairs, n - 1, delta_p, delta_u_nibble, nibble_idx))

\* a plausible slip: the first of the equal maxima kept, as min_by_key keeps
\* the first of the equal minima
LaterWinsOnlyIfGreater(count, best_count) == count > best_count

\* Iterator::max_by_key: "If several elements are equally maximum, the last
\* element is returned": the later element replaces the best unless the best
\* is greater
LaterWins(count, best_count) == count >= best_count

RECURSIVE MaxByKeyFrom(_, _, _)
MaxByKeyFrom(counts, candidate, best_candidate) ==
  IF candidate = 16 THEN best_candidate
  ELSE IF LaterWins(counts[candidate], counts[best_candidate])
         THEN MaxByKeyFrom(counts, candidate + 1, candidate)
         ELSE MaxByKeyFrom(counts, candidate + 1, best_candidate)

\* counts.iter().enumerate().max_by_key(|&(_, count)| count)
\*   .map(|(candidate, _)| candidate as u8).unwrap()   on the 16 counters
MaxByKey(counts) == MaxByKeyFrom(counts, 1, 0)

differential_attack(pairs, delta_p, delta_u, nibble_idx) ==
  LET delta_u_nibble == BitAnd(Shr(delta_u, 4 * nibble_idx), 15)
  IN Call(LAMBDA counts : Ok(MaxByKey(counts)),
          DifferentialCounts(pairs, Len(pairs), delta_p, delta_u_nibble,
                             nibble_idx))

(***************************************************************************)
(* Calls of the two attacks on small collections of pairs                   *)
(***************************************************************************)
MaxPairs == 3

SeqsUpTo(S, n) == UNION {[1 .. k -> S] : k \in 0 .. n}

\* (plaintext, ciphertext); the last is main's 0xABCD and its ciphertext
LinearPairs == {<<0, 0>>, <<0, 1>>, <<1, 5>>, <<43981, 14979>>}

\* 0x0001, 0x0010
Alphas == {1, 16}

\* 0x0001, 0x0500
Betas == {1, 1280}

\* (p1, p2, c1, c2): plaintexts 0, 1, 2 and their partners under the demo
\* schedule with difference 0x0010, and one pair with difference 0x0001
Quadruples ==
  { <<0, 16, 29636, 62152>>, <<1, 17, 21766, 9864>>,
    <<2, 18, 30993, 64343>>, <<0, 1, 29636, 21766>> }

\* 0x0010, 0x0001
DeltaPs == {16, 1}

\* 0x0030, 0x3333
DeltaUs == {48, 13107}

NibbleIndexes == 0 .. 3

CallLinearAttack ==
  /\ op = "idle"
  /\ \E pairs \in SeqsUpTo(LinearPairs, MaxPairs), alpha \in Alphas,
        beta \in Betas, nibble_idx \in NibbleIndexes :
       /\ op' = "linear_attack"
       /\ arg' = [pairs |-> pairs, alpha |-> alpha, beta |-> beta,
                  nibble_idx |-> nibble_idx]
       /\ res' = linear_attack(pairs, alpha, beta, nibble_idx)
  /\ UNCHANGED main

CallDifferentialAttack ==
  /\ op = "idle"
  /\ \E pairs \in SeqsUpTo(Quadruples, MaxPairs), delta_p \in DeltaPs,
        delta_u \in DeltaUs, nibble_idx \in NibbleIndexes :
       /\ op' = "differential_attack"
       /\ arg' = [pairs |-> pairs, delta_p |-> delta_p, delta_u |-> delta_u,
                  nibble_idx |-> nibble_idx]
       /\ res' = differential_attack(pairs, delta_p, delta_u, nibble_idx)
  /\ UNCHANGED main

NextAttack == CallLinearAttack \/ CallDifferentialAttack

SpecAttack == InitIdle /\ [][NextAttack]_vars

\* the greatest and the least member of a non-empty set of integers
Greatest(S) == CHOOSE x \in S : \A y \in S : y <= x

Least(S) == CHOOSE x \in S : \A y \in S : x <= y

\* C2: linearAttack and differentialAttack called on an empty pair collection
\* signal an error (EmptyPairSet); neither returns a nibble value.
C2_EmptyPairSetFails ==
  (op \in {"linear_attack", "differential_attack"} /\ arg.pairs = <<>>) =>
    res.kind # "ok"

\* the quadruples of the call that pass the right-pair filter
Survivors ==
  {n \in 1 .. Len(arg.pairs) :
     BitXor(arg.pairs[n][1], arg.pairs[n][2]) = arg.delta_p}

\* the counter of a candidate after all quadruples of the call are processed
DifferentialCounter(candidate) ==
  LET idx == arg.nibble_idx
      want == (arg.delta_u \div Pow2(4 * idx)) % 16
      nib(c) == (c \div Pow2(4 * idx)) % 16
  IN Cardinality(
       {n \in Survivors :
          BitXor(SBOX_INV[BitXor(nib(arg.pairs[n][3]), candidate) + 1],
                 SBOX_INV[BitXor(nib(arg.pairs[n][4]), candidate) + 1]) = want})

\* the candidates whose counter is maximal
DifferentialMaxima ==
  {k \in Nibbles : \A j \in Nibbles : DifferentialCounter(j) <= DifferentialCounter(k)}

\* C3 as stated, on the calls in which a quadruple survives the filter:
\* differentialAttack returns the candidate whose counter is maximal, the
\* lowest-valued one when several share the maximum.
C3_Original_LowestOfMaxima ==
  (op = "differential_attack" /\ Survivors # {}) =>
    res = Ok(Least(DifferentialMaxima))

\* C3 as amended: when a quadruple survives the filter, differentialAttack
\* returns the candidate whose counter is maximal, the highest-valued one
\* when several share the maximum.
C3_HighestOfMaxima ==
  (op = "differential_attack" /\ Survivors # {}) =>
    res = Ok(Greatest(DifferentialMaxima))

\* a call in which quadruples survived, several candidates share a maximal
\* counter above zero, and the highest of them, which is not 15, came back
C3_Witness ==
  /\ op = "differential_attack"
  /\ Cardinality(Survivors) >= 2
  /\ Cardinality(DifferentialMaxima) >= 2
  /\ DifferentialCounter(Greatest(DifferentialMaxima)) >= 1
  /\ res = Ok(Greatest(DifferentialMaxima))
  /\ res.val # 15

\* C4: differentialAttack called on a non-empty collection of which the
\* right-pair filter removes every entry signals an error (NoSurvivingPairs)
\* and returns no nibble.
C4_NoSurvivingPairsFails ==
  (op = "differential_attack" /\ arg.pairs # <<>> /\ Survivors = {}) =>
    res.kind # "ok"

\* parity of the bits of x
Parity(x) == CountOnes(x) % 2

\* the counter of a candidate after all pairs of the call are processed
LinearCounter(candidate) ==
  LET idx == arg.nibble_idx
      betaNibble == (arg.beta \div Pow2(4 * idx)) % 16
      nib(c) == (c \div Pow2(4 * idx)) % 16
  IN Cardinality(
       {n \in 1 .. Len(arg.pairs) :
          Parity(BitAnd(arg.alpha, arg.pairs[n][1])) =
            Parity(BitAnd(betaNibble,
                          SBOX_INV[BitXor(nib(arg.pairs[n][2]), candidate) + 1]))})

\* |2 * count - total|, which orders the candidates as |count/total - 0.5| does
Deviation(candidate) ==
  LET d == 2 * LinearCounter(candidate) - Len(arg.pairs)
  IN IF d < 0 THEN 0 - d ELSE d

LinearMaxima ==
  {k \in Nibbles : \A j \in Nibbles : Deviation(j) <= Deviation(k)}

\* C9: for a non-empty pair collection linearAttack returns the candidate
\* maximising |count/total - 0.5| (equivalently |2*count - total|), count
\* being the number of pairs with parity(alpha & plaintext) equal to
\* parity(betaNibble & SBOX_INV[targetCipherNibble XOR candidate]); the
\* lowest-valued one when several share the maximum.
C9_LinearReturnsLowestOfMaxima ==
  (op = "linear_attack" /\ arg.pairs # <<>>) => res = Ok(Least(LinearMaxima))

(***************************************************************************)
(* S-box analysis                                                           *)
(***************************************************************************)
\* the number of x in 0..16 with <a, x> = <b, SBOX[x]>
LinearMatches(a, b) ==
  Cardinality({x \in Nibbles :
                 CountOnes(BitAnd(a, x)) % 2 = CountOnes(BitAnd(b, SBOX[x + 1])) % 2})

\* (count as f32 / 16.0) - 0.5
linear_bias_sbox(a, b) == F32Sub(F32Div(LinearMatches(a, b), 16), Finite(F32One \div 2))

\* the number of x in 0..16 with SBOX[x] ^ SBOX[x ^ delta_in] = delta_out
DifferentialMatches(delta_in, delta_out) ==
  Cardinality({x \in Nibbles :
                 BitXor(SBOX[x + 1], SBOX[BitXor(x, delta_in) + 1]) = delta_out})

\* count as f32 / 16.0
diff_prob_sbox(delta_in, delta_out) ==
  F32Div(DifferentialMatches(delta_in, delta_out), 16)

\* a scan keeps [best, input, output]; Score(input, output) is what it
\* compares, and outputs run from first_output to 15 for each input 1 .. 15
RECURSIVE ScanOutputs(_, _, _, _)
ScanOutputs(Score(_, _), input, output, best) ==
  IF output = 16 THEN best
  ELSE Call(LAMBDA score :
              IF F32Gt(score, best.best)
                THEN ScanOutputs(Score, input, output + 1,
                                 [best |-> score, input |-> input,
                                  output |-> output])
                ELSE ScanOutputs(Score, input, output + 1, best),
            Score(input, output))

RECURSIVE ScanInputs(_, _, _, _)
ScanInputs(Score(_, _), first_output, input, best) ==
  IF input = 16 THEN best
  ELSE Call(LAMBDA scanned : ScanInputs(Score, first_output, input + 1, scanned),
            ScanOutputs(Score, input, first_output, best))

NothingYet == [best |-> Finite(0 - F32One), input |-> 0, output |-> 0]

AbsLinearBias(input_mask, output_mask) ==
  F32Abs(linear_bias_sbox(input_mask, output_mask))

find_best_linear_approximation == ScanInputs(AbsLinearBias, 1, 1, NothingYet)

find_best_differential == ScanInputs(diff_prob_sbox, 0, 1, NothingYet)

(***************************************************************************)
(* main.  Its two attacks run over 10000 and 5000 pairs; the loops that     *)
(* build the pairs and the loops of linear_attack and differential_attack   *)
(* over them advance one pair per step.  The Vec pairs is kept as its       *)
(* length pairs_len: its element i is a function of i and of the round      *)
(* keys, LinearPairAt(i) or DifferentialPairAt(i).                          *)
(***************************************************************************)
LinearNumPairs == 10000

DifferentialNumPairs == 5000

MainStart ==
  [pc |-> "start", round_keys |-> <<>>, lin |-> NothingYet, diff |-> NothingYet,
   alpha |-> 0, beta |-> 0, delta_p |-> 0, delta_u |-> 0, nibble_idx |-> 0,
   i |-> 0, pairs_len |-> 0, counts |-> NoCounts,
   recovered_linear |-> 0, recovered_nibble |-> 0, actual_key_nibble |-> 0]

InitMain == op = "idle" /\ arg = NoArg /\ res = NoValue /\ main = MainStart

\* lines 301-303: the pair pushed in turn i of the first loop
LinearPairAt(round_keys, i) ==
  LET plain == i % 65536
  IN <<plain, encrypt(plain, round_keys).val>>

\* lines 330-334: the quadruple pushed in turn i of the second loop
DifferentialPairAt(round_keys, delta_p, i) ==
  LET p1 == i % 65536
      p2 == BitXor(p1, delta_p)
  IN <<p1, p2, encrypt(p1, round_keys).val, encrypt(p2, round_keys).val>>

\* lines 263-275: the schedule of the example key, and the round trip of
\* 0xABCD with its assert_eq!
MainKeysAndRoundTrip ==
  /\ main.pc = "start"
  /\ \E overflow_checks \in BOOLEAN :
       LET round_keys == expand_key(DemoKey, 5, overflow_checks).val
           ciphertext == encrypt(43981, round_keys).val
           decrypted == decrypt(ciphertext, round_keys).val
       IN main' = [main EXCEPT
                     !.pc = IF decrypted = 43981 THEN "analyse" ELSE "panicked",
                     !.round_keys = round_keys]
  /\ UNCHANGED <<op, arg, res>>

\* lines 278-292 and 298-299: the best approximation and characteristic, the
\* masks of the linear attack, an empty Vec of pairs
MainAnalyse ==
  /\ main.pc = "analyse"
  /\ LET lin == find_best_linear_approximation
     IN main' = [main EXCEPT
                   !.pc = "linear_pairs",
                   !.lin = lin,
                   !.diff = find_best_differential,
                   !.alpha = Shl16(lin.input, 4),
                   !.beta = Shl16(lin.output, 8),
                   !.nibble_idx = 2,
                   !.i = 0,
                   !.pairs_len = 0]
  /\ UNCHANGED <<op, arg, res>>

\* lines 300-304: one turn of  for i in 0..num_pairs
MainLinearPair ==
  /\ main.pc = "linear_pairs"
  /\ main.i < LinearNumPairs
  /\ main' = [main EXCEPT !.i = main.i + 1, !.pairs_len = main.pairs_len + 1]
  /\ UNCHANGED <<op, arg, res>>

\* line 307: linear_attack is entered
MainLinearAttack ==
  /\ main.pc = "linear_pairs"
  /\ main.i = LinearNumPairs
  /\ main' = [main EXCEPT !.pc = "linear_count", !.i = 0, !.counts = NoCounts]
  /\ UNCHANGED <<op, arg, res>>

\* lines 123-142: one turn of  for (plain, cipher) in pairs
MainLinearCount ==
  /\ main.pc = "linear_count"
  /\ main.i < main.pairs_len
  /\ LET beta_nibble == BitAnd(Shr(main.beta, 4 * main.nibble_idx), 15) % 256
     IN main' = [main EXCEPT
                   !.i = main.i + 1,
                   !.counts = LinearCountPair(main.counts,
                                              LinearPairAt(main.round_keys, main.i),
                                              main.alpha, beta_nibble,
                                              main.nibble_idx)]
  /\ UNCHANGED <<op, arg, res>>

\* lines 145-155 and 318-328: linear_attack returns; the differences of the
\* differential attack, an empty Vec of pairs
MainLinearResult ==
  /\ main.pc = "linear_count"
  /\ main.i = main.pairs_len
  /\ main' = [main EXCEPT
                !.pc = "differential_pairs",
                !.recovered_linear =
                   LinearBest(main.counts, main.pairs_len, 0, Finite(0 - F32One), 0),
                !.delta_p = Shl16(main.diff.input, 4),
                !.delta_u = Shl16(main.diff.output, 4),
                !.nibble_idx = 1,
                !.i = 0,
                !.pairs_len = 0]
  /\ UNCHANGED <<op, arg, res>>

\* lines 329-335: one turn of  for i in 0..num_pairs
MainDifferentialPair ==
  /\ main.pc = "differential_pairs"
  /\ main.i < DifferentialNumPairs
  /\ main' = [main EXCEPT !.i = main.i + 1, !.pairs_len = main.pairs_len + 1]
  /\ UNCHANGED <<op, arg, res>>

\* line 338: differential_attack is entered
MainDifferentialAttack ==
  /\ main.pc = "differential_pairs"
  /\ main.i = DifferentialNumPairs
  /\ main' = [main EXCEPT !.pc = "differential_count", !.i = 0, !.counts = NoCounts]
  /\ UNCHANGED <<op, arg, res>>

\* lines 190-210: one turn of  for (p1, p2, c1, c2) in pairs
MainDifferentialCount ==
  /\ main.pc = "differential_count"
  /\ main.i < main.pairs_len
  /\ LET delta_u_nibble == BitAnd(Shr(main.delta_u, 4 * main.nibble_idx), 15)
     IN main' = [main EXCEPT
                   !.i = main.i + 1,
                   !.counts = DifferentialCountPair(
                                main.counts,
                                DifferentialPairAt(main.round_keys, main.delta_p,
                                                   main.i),
                                main.delta_p, delta_u_nibble, main.nibble_idx)]
  /\ UNCHANGED <<op, arg, res>>

\* lines 213-219 and 343: differential_attack returns; the nibble of the last
\* round key it was after
MainDifferentialResult ==
  /\ main.pc = "differential_count"
  /\ main.i = main.pairs_len
  /\ main' = [main EXCEPT
                !.pc = "done",
                !.recovered_nibble = MaxByKey(main.counts),
                !.actual_key_nibble =
                   BitAnd(Shr(main.round_keys[5], 4 * main.nibble_idx), 15)]
  /\ UNCHANGED <<op, arg, res>>

NextMain ==
  \/ MainKeysAndRoundTrip
  \/ MainAnalyse
  \/ MainLinearPair
  \/ MainLinearAttack
  \/ MainLinearCount
  \/ MainLinearResult
  \/ MainDifferentialPair
  \/ MainDifferentialAttack
  \/ MainDifferentialCount
  \/ MainDifferentialResult

SpecMain == InitMain /\ [][NextMain]_vars

\* C8: in the demonstration scenario differentialAttack returns exactly
\* nibble 1 of roundKeys[4], (roundKeys[4] >> 4) & 0xF.
C8_DemoRecoversKeyNibble ==
  main.pc = "done" =>
    main.recovered_nibble = (main.round_keys[5] \div 16) % 16

====
